---- MODULE Spec2Model ----
(***************************************************************************)
(* Model of the bananazone client code:                                    *)
(*   - CryptoDataFetcher (vercel_cache_solution.js): the freshness fetch   *)
(*     layer with its per-bucket result cache, candidate URLs and retry;   *)
(*   - CryptoTradingBot (vercel_trading_bot_example.js): the insight       *)
(*     aggregation: signal filter, arbitrage filter, market conditions,    *)
(*     action items, executeAnalysis and its history.                      *)
(*                                                                         *)
(* Time is in milliseconds (Date.now()).  Record timestamps (field t) are  *)
(* modelled as numbers ordered as the ISO strings of the data are; 0       *)
(* stands for a falsy t ("" or 0), undefined for a missing t.              *)
(* Strengths and confidences are in thousandths (0.7 is 700), price       *)
(* differences and profits in thousandths of a percent (0.25% is 250).     *)
(***************************************************************************)
EXTENDS Integers, Sequences, FiniteSets, TLC

VARIABLES
    now,        \* Date.now()
    cache,      \* this.cache: Map from cache key to result
    pc,         \* per call of fetchCryptoData: where its async body stands
    args,       \* per call: path and options
    loc,        \* per call: the locals cacheKey, url index, attempt, bestResult, latestTimestamp
    hist,       \* per call, history: requests per url, outcome per candidate, the
                \* greatest last-record timestamp seen
    result,     \* per call: the value returned (NoResult when none / thrown)
    text,       \* one response on its own: the body
    records,    \* one response on its own: the records parsed from the body
    parsePc,    \* one response on its own: "ready" or "done"
    insights,   \* trading bot: the insight document
    tradingDecisions,  \* trading bot: what analyzeSignals returned
    botPc,      \* trading bot: "ready" or "analyzed"
    analysis,   \* trading bot: the last call of executeAnalysis, how its fetch
                \* ended, how the call ended and what it returned
    tradingHistory,  \* trading bot: this.tradingHistory
    analyzed,   \* trading bot, history: the document of each entry of tradingHistory
    fw,         \* a direct call of fetchWithCacheBusting(url, maxRetries)
    prices,     \* a call of getLatestPrices: where its loop stands, its options,
                \* its results and, as history, how each fetchCryptoData ended
    isRunning,  \* trading bot: this.isRunning
    loops       \* trading bot: per call of startAutoAnalysis, where its loop stands

vars == <<now, cache, pc, args, loc, hist, result, text, records, parsePc,
          insights, tradingDecisions, botPc, analysis, tradingHistory, analyzed, fw,
          prices, isRunning, loops>>
fetcherVars == <<now, cache, pc, args, loc, hist, result>>
parseVars == <<text, records, parsePc>>
botVars == <<insights, tradingDecisions, botPc>>
analysisVars == <<analysis, tradingHistory, analyzed>>
retryVars == <<fw>>
pricesVars == <<prices>>
loopVars == <<isRunning, loops>>

---------------------------------------------------------------------------
(* Bounds of the model *)
MaxLines == 2      \* lines of a response body handed to the parser
MaxTicks == 1      \* clock advances, one time bucket each
MaxSignals == 2    \* signals in an insight document
MaxOpps == 2       \* arbitrage opportunities in an insight document
MaxExchanges == 2  \* exchanges in exchange_health
MaxRuns == 3       \* entries of tradingHistory
MaxDirectRetries == 5  \* maxRetries of a direct call of fetchWithCacheBusting
MaxLoops == 2      \* calls of startAutoAnalysis on one bot

(* Program constants *)
cacheTimeout == 30000        \* this.cacheTimeout
NumUrls == 3                 \* the urls array of fetchCryptoData
FetchRetries == 2            \* the second argument of this.fetchWithCacheBusting(url, 2)
DefaultMaxRetries == 3       \* options.maxRetries default
StaleMinutes == 60           \* dataAge > 60
MinRecords == 10             \* records.length < 10
StrengthFloor == 700         \* signal.strength > 0.7
ConfidenceFloor == 600       \* signal.confidence > 0.6
FeeFloor == 250              \* opp.price_difference_pct > 0.25
EstimatedFee == 200          \* opp.price_difference_pct - 0.2
HighProfitFloor == 500       \* a.netProfitPct > 0.5
VeryStrongFloor == 800       \* s.strength > 0.8
HealthyAbove == 80           \* avgHealth > 80
DegradedAbove == 60          \* avgHealth > 60
CautionBelow == 60           \* health < 60
VolatilityHigh == 50         \* volatility > 0.05
SpreadTight == 10            \* avgSpread < 0.01
SpreadWide == 50             \* avgSpread > 0.05

(* The clock of the model: it starts in the middle of bucket 129 and
   advances by one bucket *)
TickMs == cacheTimeout
NowStart == 129 * cacheTimeout + (cacheTimeout \div 2)

Calls == {"c1", "c2"}
Paths == {"coinbase/BTC/1min/d.jsonl", "kraken/BTC/1min/d.jsonl"}
OnePath == {"coinbase/BTC/1min/d.jsonl"}
Urls == 1..NumUrls
MaxRetriesOpts == {DefaultMaxRetries}

null == -2          \* JS null (latestTimestamp before any candidate)
undefined == -1     \* JS undefined (a record without t)
TOld == 2 * cacheTimeout      \* a timestamp more than an hour before NowStart
TNew == 129 * cacheTimeout    \* a timestamp seconds before NowStart
Timestamps == {0, TOld, TNew}

---------------------------------------------------------------------------
(* Response bodies: a body is its sequence of lines *)
(* a line carries what the code reads of it: the timestamp t and the price mid *)
ObjLine(t) == [kind |-> "obj", t |-> t, mid |-> undefined]  \* a JSON object line with field t
PricedLine(t, mid) == [kind |-> "obj", t |-> t, mid |-> mid] \* with fields t and mid
NullLine == [kind |-> "null", t |-> undefined, mid |-> undefined] \* the line `null`: valid JSON
BadLine == [kind |-> "bad", t |-> undefined, mid |-> undefined]   \* not JSON
BlankLine == [kind |-> "blank", t |-> undefined, mid |-> undefined] \* empty or whitespace only

Lines == {ObjLine(t) : t \in Timestamps \cup {undefined}} \cup {NullLine, BadLine, BlankLine}
RoundLines == {ObjLine(t) : t \in Timestamps} \cup {BadLine, BlankLine}

SeqsUpTo(S, n) == UNION {[1..k -> S] : k \in 0..n}

Bodies == SeqsUpTo(Lines, MaxLines)
(* The responses of a round.  The round reads a body only through the records
   parsed from it: the empty body, every one-line body, and two-line bodies
   whose last record is older than the first, or that hold a malformed line
   before a record.  The parser is run on every body of Bodies on its own. *)
MixedBodies == {<<ObjLine(TNew), ObjLine(TOld)>>, <<BadLine, ObjLine(TNew)>>}
RoundBodies == {<<>>} \cup {<<l>> : l \in RoundLines} \cup MixedBodies
(* the responses of the runs with two callers *)
ConcBodies == {<<ObjLine(TOld)>>, <<ObjLine(TNew)>>}
ConcOptions == [maxRetries : {DefaultMaxRetries}, consistencyCheck : {TRUE}, useCache : BOOLEAN]

---------------------------------------------------------------------------
(* CryptoDataFetcher: the cache key *)
Bucket(t) == t \div cacheTimeout

DigitChars == <<"0", "1", "2", "3", "4", "5", "6", "7", "8", "9">>

RECURSIVE Digits(_)
Digits(n) == IF n < 10 THEN <<DigitChars[n + 1]>>
             ELSE Append(Digits(n \div 10), DigitChars[(n % 10) + 1])

(* `${path}-${Math.floor(Date.now() / this.cacheTimeout)}`; the path is one token *)
CacheKey(path, t) == <<path, "-">> \o Digits(Bucket(t))

EndsWith(s, suffix) ==
    /\ Len(suffix) <= Len(s)
    /\ SubSeq(s, Len(s) - Len(suffix) + 1, Len(s)) = suffix

(* key.endsWith(`-${Math.floor(Date.now() / this.cacheTimeout)}`) *)
KeyOfCurrentBucket(key, t) == EndsWith(key, <<"-">> \o Digits(Bucket(t)))

(* this.cache.set(cacheKey, bestResult) followed by the loop deleting old keys *)
CacheSet(c, key, value) ==
    [k \in DOMAIN c \cup {key} |-> IF k = key THEN value ELSE c[k]]

CachePruneNothing(c, t) == c

CachePrune(c, t) ==
    [k \in {x \in DOMAIN c : KeyOfCurrentBucket(x, t)} |-> c[k]]

CacheStore(c, key, value, t) == CachePrune(CacheSet(c, key, value), t)

(* this.cache.has(cacheKey), this.cache.get(cacheKey) *)
CacheLookupByPath(c, key) ==
    LET ks == {k \in DOMAIN c : k[1] = key[1]} IN
    IF ks # {} THEN [hit |-> TRUE, value |-> c[CHOOSE k \in ks : TRUE]]
    ELSE [hit |-> FALSE, value |-> c]

CacheLookup(c, key) ==
    IF key \in DOMAIN c THEN [hit |-> TRUE, value |-> c[key]]
    ELSE [hit |-> FALSE, value |-> c]

---------------------------------------------------------------------------
(* CryptoDataFetcher: parsing a response body *)
NullRecord == [isNull |-> TRUE, t |-> undefined, mid |-> undefined]

IsBlank(line) == line.kind = "blank"

(* !text.trim() *)
TrimEmpty(body) == \A i \in 1..Len(body) : IsBlank(body[i])

(* text.trim().split('\n').filter(line => line.trim()) *)
SplitLines(body) == SelectSeq(body, LAMBDA l : ~IsBlank(l))

(* JSON.parse(line): throws on a line that is not JSON, null on the line `null` *)
JSONParseThrows(line) == line.kind \notin {"obj", "null"}
JSONParse(line) == IF line.kind = "null" THEN NullRecord
                   ELSE [isNull |-> FALSE, t |-> line.t, mid |-> line.mid]

(* the callback of lines.map: try { return JSON.parse(line) } catch { return null } *)
ParseLineKeepsBad(line) ==
    IF JSONParseThrows(line) THEN [isNull |-> FALSE, t |-> undefined, mid |-> undefined] ELSE JSONParse(line)

ParseLine(line) == IF JSONParseThrows(line) THEN NullRecord ELSE JSONParse(line)

(* lines.map(...).filter(record => record !== null) *)
ParseRecords(body) ==
    LET lines == SplitLines(body)
        parsed == [i \in 1..Len(lines) |-> ParseLine(lines[i])]
    IN SelectSeq(parsed, LAMBDA r : r # NullRecord)

---------------------------------------------------------------------------
(* CryptoDataFetcher: results and freshness arbitration *)

(* bestResult = { records, metadata: { url, timestamp, recordCount, fetchTime } };
   the url carries the path and the candidate's index.  fetchTime, a stamp of
   the clock that nothing reads, is left out.  keyBucket is history: the time
   bucket of the cache key of the call that built the result. *)
NoResult == [records |-> <<>>, path |-> "", url |-> 0, timestamp |-> null,
             recordCount |-> 0, keyBucket |-> 0]

MakeResult(recs, path, url, timestamp, bucket) ==
    [records |-> recs, path |-> path, url |-> url, timestamp |-> timestamp,
     recordCount |-> Len(recs), keyBucket |-> bucket]

(* JS truthiness, and the relational > of two timestamps: a comparison of a
   timestamp with undefined or null is false *)
Falsy(x) == x \in {null, undefined, 0}
Gt(a, b) == a \notin {null, undefined} /\ b \notin {null, undefined} /\ a > b

KeepFirst(timestamp, latestTimestamp) == latestTimestamp = null
KeepNewerNoInit(timestamp, latestTimestamp) == Gt(timestamp, latestTimestamp)

(* !latestTimestamp || timestamp > latestTimestamp *)
KeepNewer(timestamp, latestTimestamp) ==
    Falsy(latestTimestamp) \/ Gt(timestamp, latestTimestamp)

(* the retry count handed to fetchWithCacheBusting: the literal 2,
   whatever options.maxRetries is *)
UrlRetries(opts) == FetchRetries

(* attempt === maxRetries in the catch of fetchWithCacheBusting *)
LastAttemptLate(attempt, maxRetries) == attempt = maxRetries + 1
LastAttempt(attempt, maxRetries) == attempt = maxRetries

(* Math.min(1000 * Math.pow(2, attempt - 1), 5000) *)
BackoffDelayUncapped(attempt) == 1000 * (2 ^ (attempt - 1))

BackoffDelay(attempt) ==
    LET d == 1000 * (2 ^ (attempt - 1)) IN IF d < 5000 THEN d ELSE 5000

(* the catch of the loop over the urls only logs: a failed candidate is skipped *)
CatchRethrowsAlways == TRUE
CatchRethrows == FALSE

(* The body of the try block for one response text: the outcome of the
   candidate and the locals after it. *)
ProcessBodyKeepsEmpty(l, body, path, bucket) ==
    LET recs == ParseRecords(body) IN
    IF Len(recs) = 0
    THEN [outcome |-> "empty", ts |-> undefined,
          loc |-> IF l.bestResult = NoResult
                  THEN [l EXCEPT !.bestResult =
                            MakeResult(<<[isNull |-> FALSE, t |-> undefined, mid |-> undefined]>>,
                                       path, l.url, undefined, bucket)]
                  ELSE l]
    ELSE LET timestamp == recs[Len(recs)].t IN
         [outcome |-> "records", ts |-> timestamp,
          loc |-> IF KeepNewer(timestamp, l.latestTimestamp)
                  THEN [l EXCEPT !.latestTimestamp = timestamp,
                                 !.bestResult = MakeResult(recs, path, l.url, timestamp, bucket)]
                  ELSE l]

ProcessBody(l, body, path, bucket) ==
    IF TrimEmpty(body) THEN [outcome |-> "empty", ts |-> undefined, loc |-> l]
    ELSE IF Len(SplitLines(body)) = 0 THEN [outcome |-> "empty", ts |-> undefined, loc |-> l]
    ELSE LET recs == ParseRecords(body) IN
         IF Len(recs) = 0 THEN [outcome |-> "empty", ts |-> undefined, loc |-> l]
         ELSE LET timestamp == recs[Len(recs)].t IN
              [outcome |-> "records", ts |-> timestamp,
               loc |-> IF KeepNewer(timestamp, l.latestTimestamp)
                       THEN [l EXCEPT !.latestTimestamp = timestamp,
                                      !.bestResult = MakeResult(recs, path, l.url, timestamp, bucket)]
                       ELSE l]

(* The consistency check: it only warns.  new Date(undefined) is invalid, its
   age is NaN and compares false. *)
Stale(timestamp, t) == timestamp # undefined /\ (t - timestamp) > StaleMinutes * 60 * 1000

ConsistencyCheckStrict(best, t) ==
    [throws |-> Stale(best.records[Len(best.records)].t, t) \/ Len(best.records) < MinRecords,
     warnings |-> {}]

ConsistencyCheck(best, t) ==
    [throws |-> FALSE,
     warnings |-> (IF Stale(best.records[Len(best.records)].t, t) THEN {"stale"} ELSE {})
                  \cup (IF Len(best.records) < MinRecords THEN {"few"} ELSE {})]

(* What follows the loop over the urls: throw, or check, store and return *)
FinishPrunesOnThrow(best, opts, key, c, t) ==
    IF best = NoResult
    THEN [pc |-> "threw", result |-> NoResult,
          cache |-> IF opts.useCache THEN CachePrune(c, t) ELSE c, warnings |-> {}]
    ELSE LET chk == IF opts.consistencyCheck THEN ConsistencyCheck(best, t)
                    ELSE [throws |-> FALSE, warnings |-> {}] IN
         [pc |-> "returned", result |-> best,
          cache |-> IF opts.useCache THEN CacheStore(c, key, best, t) ELSE c,
          warnings |-> chk.warnings]

FinishStoresAlways(best, opts, key, c, t) ==
    IF best = NoResult
    THEN [pc |-> "threw", result |-> NoResult, cache |-> c, warnings |-> {}]
    ELSE LET chk == IF opts.consistencyCheck THEN ConsistencyCheck(best, t)
                    ELSE [throws |-> FALSE, warnings |-> {}] IN
         [pc |-> "returned", result |-> best,
          cache |-> CacheStore(c, key, best, t), warnings |-> chk.warnings]

Finish(best, opts, key, c, t) ==
    IF best = NoResult
    THEN [pc |-> "threw", result |-> NoResult, cache |-> c, warnings |-> {}]
    ELSE LET chk == IF opts.consistencyCheck THEN ConsistencyCheck(best, t)
                    ELSE [throws |-> FALSE, warnings |-> {}] IN
         IF chk.throws
         THEN [pc |-> "threw", result |-> NoResult, cache |-> c, warnings |-> chk.warnings]
         ELSE [pc |-> "returned", result |-> best,
               cache |-> IF opts.useCache THEN CacheStore(c, key, best, t) ELSE c,
               warnings |-> chk.warnings]

---------------------------------------------------------------------------
(* CryptoTradingBot: the signal filter *)
Strengths == {500, 700, 704, 800, 900}
Confidences == {600, 700, 900}
Signals == [exchange : {"coinbase"}, asset : {"BTC"}, direction : {"bullish", "bearish"},
            strength : Strengths, confidence : Confidences, data_type : {"spot"}]

(* market_overview: market_volatility, average_spreads.L5 and
   total_market_volume, each undefined when missing; {} stands for a missing
   market_overview *)
NoOverview == [market_volatility |-> undefined, L5 |-> undefined,
               total_market_volume |-> undefined]

(* an insight document; has_x is FALSE when the key x is missing.
   exchange_health is the sequence of the values of the object, in the order
   of Object.values. *)
NoInsights == [has_current_signals |-> FALSE, current_signals |-> <<>>,
               has_arbitrage_opportunities |-> FALSE, arbitrage_opportunities |-> <<>>,
               has_exchange_health |-> FALSE, exchange_health |-> <<>>,
               has_market_overview |-> FALSE, market_overview |-> NoOverview]
InsightDocs == {NoInsights} \cup
    {[NoInsights EXCEPT !.has_current_signals = TRUE, !.current_signals = sigs] :
        sigs \in SeqsUpTo(Signals, MaxSignals)}

(* Number.prototype.toFixed(2) of a value in thousandths: hundredths, rounded *)
ToFixed2(x) == (x + 5) \div 10

(* signal.strength > 0.7 && signal.confidence > 0.6 *)
StrongSignalInclusive(signal) ==
    signal.strength >= StrengthFloor /\ signal.confidence >= ConfidenceFloor

StrongSignal(signal) ==
    signal.strength > StrengthFloor /\ signal.confidence > ConfidenceFloor

(* the decision built for one strong signal; its timestamp, a stamp of the
   clock, is left out *)
Decision(signal) ==
    [exchange |-> signal.exchange, asset |-> signal.asset, action |-> signal.direction,
     strength |-> signal.strength, confidence |-> signal.confidence,
     reason |-> <<"ML signal", ToFixed2(signal.strength), ToFixed2(signal.confidence)>>,
     dataType |-> signal.data_type]

analyzeSignalsOnce(doc) ==
    LET signals == IF doc.has_current_signals THEN doc.current_signals ELSE <<>>
        fresh(signal) == /\ StrongSignal(signal)
                         /\ \A i \in 1..Len(tradingHistory) :
                                \A j \in 1..Len(tradingHistory[i].tradingSignals) :
                                    tradingHistory[i].tradingSignals[j] # Decision(signal)
        strongSignals == SelectSeq(signals, fresh)
    IN [i \in 1..Len(strongSignals) |-> Decision(strongSignals[i])]

analyzeSignals(doc) ==
    LET signals == IF doc.has_current_signals THEN doc.current_signals ELSE <<>>
        strongSignals == SelectSeq(signals, StrongSignal)
    IN [i \in 1..Len(strongSignals) |-> Decision(strongSignals[i])]

---------------------------------------------------------------------------
(* CryptoTradingBot: the arbitrage filter.  Price differences and profits
   are in thousandths of a percent (0.25% is 250). *)
PriceDiffs == {200, 250, 300, 700, 800, 900}
Opportunities == [asset : {"ETH"}, low_exchange : {"coinbase"}, high_exchange : {"kraken"},
                  low_price : {4300}, high_price : {4310},
                  price_difference_pct : PriceDiffs]

(* an opportunity whose prices are missing *)
Unpriced(diff) == [asset |-> "ETH", low_exchange |-> "coinbase", high_exchange |-> "kraken",
                   low_price |-> undefined, high_price |-> undefined,
                   price_difference_pct |-> diff]

(* opp.price_difference_pct > 0.25 *)
ProfitableArbitrageInclusive(opp) == opp.price_difference_pct >= FeeFloor
ProfitableArbitrage(opp) == opp.price_difference_pct > FeeFloor

(* opp.price_difference_pct - 0.2 *)
NetProfit(opp) == opp.price_difference_pct - EstimatedFee

(* the action built for one profitable opportunity; its timestamp, a stamp of
   the clock, is left out *)
ArbitrageAction(opp) ==
    [type |-> "arbitrage", asset |-> opp.asset,
     buyExchange |-> opp.low_exchange, sellExchange |-> opp.high_exchange,
     buyPrice |-> opp.low_price, sellPrice |-> opp.high_price,
     grossProfitPct |-> opp.price_difference_pct,
     netProfitPct |-> NetProfit(opp),
     reason |-> <<"Arbitrage opportunity", ToFixed2(NetProfit(opp)), "net profit">>]

(* action.buyPrice.toFixed(2) in the log lines: a TypeError when the price is
   undefined *)
ToFixedThrows(x) == x = undefined

(* analyzeArbitrage: threw when a log line of a kept opportunity raises *)
analyzeArbitrage(doc) ==
    LET opportunities == IF doc.has_arbitrage_opportunities
                         THEN doc.arbitrage_opportunities ELSE <<>>
        profitableArbitrage == SelectSeq(opportunities, ProfitableArbitrage)
        arbitrageActions == [i \in 1..Len(profitableArbitrage) |->
                                ArbitrageAction(profitableArbitrage[i])]
    IN [threw |-> \E i \in 1..Len(arbitrageActions) :
                      \/ ToFixedThrows(arbitrageActions[i].buyPrice)
                      \/ ToFixedThrows(arbitrageActions[i].sellPrice),
        value |-> arbitrageActions]

---------------------------------------------------------------------------
(* CryptoTradingBot: market conditions.  Health scores are whole percents;
   an average is kept exact as the fraction num / den.  Volatility and
   spreads are in thousandths. *)
HealthScores == {undefined, 40, 59, 60, 80, 81, 95}
ExchangeHealths == [health_score : HealthScores]
Volatilities == {undefined, 50, 60}
Spreads == {undefined, 5, 10, 50, 60}
Overviews == [market_volatility : Volatilities, L5 : Spreads, total_market_volume : {1000}]

(* x || 0 of a number or undefined *)
OrZero(x) == IF x \in {undefined, null, 0} THEN 0 ELSE x

RECURSIVE Sum(_)
Sum(xs) == IF xs = <<>> THEN 0 ELSE Head(xs) + Sum(Tail(xs))

(* exchangeHealthScores.length > 0 ? sum / length : 0 *)
AvgOfNoneFull == [num |-> 100, den |-> 1]
AvgOfNone == [num |-> 0, den |-> 1]
Avg(xs) == IF Len(xs) > 0 THEN [num |-> Sum(xs), den |-> Len(xs)] ELSE AvgOfNone

(* avg > k and avg < k of an average and a whole number *)
Above(avg, k) == avg.num > k * avg.den
Below(avg, k) == avg.num < k * avg.den

(* avgHealth > 80 ? 'healthy' : avgHealth > 60 ? 'degraded' : 'poor' *)
HealthStatus(avgHealth) ==
    IF Above(avgHealth, HealthyAbove) THEN "healthy"
    ELSE IF Above(avgHealth, DegradedAbove) THEN "degraded"
    ELSE "poor"

getMarketRecommendation(health, overview) ==
    IF Below(health, CautionBelow) THEN "CAUTION"
    ELSE LET volatility == OrZero(overview.market_volatility)
             avgSpread == OrZero(overview.L5) IN
         IF volatility > VolatilityHigh THEN "HIGH_VOLATILITY"
         ELSE IF avgSpread < SpreadTight THEN "TIGHT_SPREADS"
         ELSE IF avgSpread > SpreadWide THEN "WIDE_SPREADS"
         ELSE "NORMAL_CONDITIONS"

(* the market condition; its timestamp is left out *)
analyzeMarketConditions(doc) ==
    LET health == IF doc.has_exchange_health THEN doc.exchange_health ELSE <<>>
        overview == IF doc.has_market_overview THEN doc.market_overview ELSE NoOverview
        exchangeHealthScores == [i \in 1..Len(health) |-> OrZero(health[i].health_score)]
        avgHealth == Avg(exchangeHealthScores)
    IN [overallHealth |-> avgHealth,
        healthStatus |-> HealthStatus(avgHealth),
        totalVolume |-> OrZero(overview.total_market_volume),
        avgSpread |-> OrZero(overview.L5),
        volatility |-> OrZero(overview.market_volatility),
        recommendation |-> getMarketRecommendation(avgHealth, overview)]

NoMarket == [overallHealth |-> AvgOfNone, healthStatus |-> "", totalVolume |-> 0,
             avgSpread |-> 0, volatility |-> 0, recommendation |-> ""]

---------------------------------------------------------------------------
(* CryptoTradingBot: the action items.  An item is a string built from a
   template; it is modelled by the parts the template is filled with. *)
Item(kind, asset, exchange, value, phrase) ==
    [kind |-> kind, asset |-> asset, exchange |-> exchange, value |-> value, phrase |-> phrase]

(* String.prototype.toUpperCase of a direction *)
ToUpperCase(str) ==
    IF str = "bullish" THEN "BULLISH" ELSE IF str = "bearish" THEN "BEARISH" ELSE str

(* (signal.strength * 100).toFixed(0): whole percents, rounded *)
ToPercent(x) == (x + 5) \div 10

WaitItem == Item("WAIT", "", "", 0, "Poor data quality, avoid trading until health improves")
ArbitrageItem(arb) ==
    Item("ARBITRAGE", arb.asset, "", ToFixed2(arb.netProfitPct), "profit available")
SignalItem(signal) ==
    Item(ToUpperCase(signal.action), signal.asset, signal.exchange,
         ToPercent(signal.strength), "strength")
MarketItem(market) == Item("Market", "", "", 0, market.recommendation)
HoldItem == Item("HOLD", "", "", 0, "No strong signals or arbitrage")

(* market.healthStatus === 'poor' *)
PoorNever(market) == FALSE
Poor(market) == market.healthStatus = "poor"

(* a.netProfitPct > 0.5 *)
AnyProfit(a) == a.netProfitPct > 0
HighProfit(a) == a.netProfitPct > HighProfitFloor

(* s.strength > 0.8 *)
VeryStrong(s) == s.strength > VeryStrongFloor

(* the items pushed for the arbitrage actions and for the decisions: filter,
   then forEach, in the order of the array *)
RECURSIVE InsertByProfit(_, _)
InsertByProfit(a, sorted) ==
    IF sorted = <<>> THEN <<a>>
    ELSE IF a.netProfitPct > Head(sorted).netProfitPct THEN <<a>> \o sorted
    ELSE <<Head(sorted)>> \o InsertByProfit(a, Tail(sorted))

RECURSIVE SortedByProfit(_)
SortedByProfit(arbitrage) ==
    IF arbitrage = <<>> THEN <<>>
    ELSE InsertByProfit(arbitrage[Len(arbitrage)],
                        SortedByProfit(SubSeq(arbitrage, 1, Len(arbitrage) - 1)))

highProfitArbitrageRaw(arbitrage) ==
    [i \in 1..Len(insights.arbitrage_opportunities) |->
        ArbitrageAction(insights.arbitrage_opportunities[i])]
highProfitArbitrageSorted(arbitrage) == SortedByProfit(SelectSeq(arbitrage, HighProfit))
highProfitArbitrage(arbitrage) == SelectSeq(arbitrage, HighProfit)

veryStrongSignals(signals) == SelectSeq(signals, VeryStrong)

generateActionItemsAlwaysHold(signals, arbitrage, market) ==
    IF Poor(market) THEN <<WaitItem>>
    ELSE LET arbs == highProfitArbitrage(arbitrage)
             strong == veryStrongSignals(signals)
         IN [i \in 1..Len(arbs) |-> ArbitrageItem(arbs[i])]
            \o [i \in 1..Len(strong) |-> SignalItem(strong[i])]
            \o <<MarketItem(market), HoldItem>>

generateActionItemsMarketFirst(signals, arbitrage, market) ==
    IF Poor(market) THEN <<WaitItem>>
    ELSE LET arbs == highProfitArbitrage(arbitrage)
             strong == veryStrongSignals(signals)
             actions == <<MarketItem(market)>>
                        \o [i \in 1..Len(arbs) |-> ArbitrageItem(arbs[i])]
                        \o [i \in 1..Len(strong) |-> SignalItem(strong[i])]
         IN IF Len(actions) = 1 THEN Append(actions, HoldItem) ELSE actions

generateActionItems(signals, arbitrage, market) ==
    IF Poor(market) THEN <<WaitItem>>
    ELSE LET arbs == highProfitArbitrage(arbitrage)
             strong == veryStrongSignals(signals)
             actions == [i \in 1..Len(arbs) |-> ArbitrageItem(arbs[i])]
                        \o [i \in 1..Len(strong) |-> SignalItem(strong[i])]
                        \o <<MarketItem(market)>>
         IN IF Len(actions) = 1 THEN Append(actions, HoldItem) ELSE actions

---------------------------------------------------------------------------
(* CryptoTradingBot: executeAnalysis *)

(* how the fetch of getMLInsights ends: a document, a non-ok status, a
   transport error, or a body that response.json() cannot parse *)
FetchOutcomes == {"ok", "status", "transport", "parse"}

(* the catch of getMLInsights logs and returns null *)
GetMLInsightsRethrowsAlways == TRUE
GetMLInsightsRethrows == FALSE

getMLInsights(outcome, served) ==
    IF outcome = "ok" THEN [threw |-> FALSE, isNull |-> FALSE, doc |-> served]
    ELSE IF GetMLInsightsRethrows THEN [threw |-> TRUE, isNull |-> TRUE, doc |-> NoInsights]
    ELSE [threw |-> FALSE, isNull |-> TRUE, doc |-> NoInsights]

(* the recommendations; the timestamp is left out.  defined is FALSE for the
   undefined that a bare return gives. *)
NoRecommendations == [defined |-> FALSE, marketCondition |-> NoMarket,
                      tradingSignals |-> <<>>, arbitrageOpportunities |-> <<>>,
                      actionItems |-> <<>>]

(* the insights object after the analyses have run on it: filter, map,
   forEach, reduce and Object.values build new arrays and the decisions and
   actions are new objects; no statement assigns to insights, to one of its
   arrays or to one of their elements *)
InputAfterFilterInPlace(doc) ==
    [doc EXCEPT !.current_signals = SelectSeq(doc.current_signals, StrongSignal),
                !.arbitrage_opportunities =
                    SelectSeq(doc.arbitrage_opportunities, ProfitableArbitrage)]

InputAfter(doc) == doc

(* one call: how it ends, what it returns, whether it pushed the
   recommendations to this.tradingHistory, and the insights object as the
   call leaves it *)
executeAnalysisGated(outcome, served) ==
    LET got == getMLInsights(outcome, served)
        signals == analyzeSignals(got.doc)
        arbitrage == analyzeArbitrage(got.doc)
        market == analyzeMarketConditions(got.doc) IN
    IF got.threw \/ got.isNull \/ arbitrage.threw
    THEN [pc |-> IF got.isNull /\ ~got.threw THEN "returned" ELSE "threw",
          value |-> NoRecommendations, push |-> FALSE, doc |-> got.doc]
    ELSE [pc |-> "returned",
          value |-> [defined |-> TRUE, marketCondition |-> market,
                     tradingSignals |-> IF Poor(market) THEN <<>> ELSE signals,
                     arbitrageOpportunities |-> IF Poor(market) THEN <<>> ELSE arbitrage.value,
                     actionItems |-> generateActionItems(signals, arbitrage.value, market)],
          push |-> TRUE, doc |-> got.doc]

executeAnalysis(outcome, served) ==
    LET got == getMLInsights(outcome, served) IN
    IF got.threw
    THEN [pc |-> "threw", value |-> NoRecommendations, push |-> FALSE, doc |-> NoInsights]
    ELSE IF got.isNull
    THEN [pc |-> "returned", value |-> NoRecommendations, push |-> FALSE, doc |-> NoInsights]
    ELSE LET signals == analyzeSignals(got.doc)
             arbitrage == analyzeArbitrage(got.doc)
             market == analyzeMarketConditions(got.doc) IN
         IF arbitrage.threw
         THEN [pc |-> "threw", value |-> NoRecommendations, push |-> FALSE,
               doc |-> InputAfter(got.doc)]
         ELSE [pc |-> "returned",
               value |-> [defined |-> TRUE, marketCondition |-> market,
                          tradingSignals |-> signals,
                          arbitrageOpportunities |-> arbitrage.value,
                          actionItems |-> generateActionItems(signals, arbitrage.value, market)],
               push |-> TRUE, doc |-> InputAfter(got.doc)]

---------------------------------------------------------------------------
(* State of the calls *)
Options == [maxRetries : MaxRetriesOpts, consistencyCheck : BOOLEAN, useCache : BOOLEAN]
NoArgs == [path |-> "", maxRetries |-> DefaultMaxRetries, consistencyCheck |-> TRUE, useCache |-> TRUE]
NoLoc == [cacheKey |-> <<>>, url |-> 0, attempt |-> 0, delay |-> 0,
          bestResult |-> NoResult, latestTimestamp |-> null]
NoHist == [round |-> FALSE, hit |-> FALSE, startBucket |-> 0,
           reqs |-> [u \in Urls |-> 0],
           cand |-> [u \in Urls |-> "none"],
           maxTs |-> null,
           only500 |-> TRUE, warnings |-> {}]

Max(a, b) == IF a >= b THEN a ELSE b

InRound(c) == pc[c] \in {"fetch", "backoff", "hung"}
Finished(c) == pc[c] \in {"returned", "threw"}

FetcherInit ==
    /\ now = NowStart
    /\ cache = <<>>
    /\ pc = [c \in Calls |-> "idle"]
    /\ args = [c \in Calls |-> NoArgs]
    /\ loc = [c \in Calls |-> NoLoc]
    /\ hist = [c \in Calls |-> NoHist]
    /\ result = [c \in Calls |-> NoResult]

(* the bot after its constructor, before any call of executeAnalysis *)
NoAnalysis == [pc |-> "idle", fetch |-> "", value |-> NoRecommendations, doc |-> NoInsights]
AnalysisIdle ==
    /\ analysis = NoAnalysis
    /\ tradingHistory = <<>>
    /\ analyzed = <<>>

(* no direct call of fetchWithCacheBusting yet; waits and log are history:
   the waits that have elapsed, and the requests sent, failures caught, waits
   elapsed and response returned, in the order they happened *)
NoFetch == [pc |-> "idle", url |-> 0, maxRetries |-> 0, attempt |-> 0, delay |-> 0,
            waits |-> <<>>, error |-> "", log |-> <<>>]
RetryIdle == fw = NoFetch

(* no call of getLatestPrices yet; results maps a pair <<exchange, asset>> to
   its entry; resolved is history: for each pair, the path that was fetched
   and how fetchCryptoData ended *)
NoPrices == [pc |-> "idle", pair |-> 0, options |-> NoArgs, results |-> <<>>, resolved |-> <<>>]
PricesIdle == prices = NoPrices

(* the bot after its constructor: isRunning false, no call of startAutoAnalysis;
   the calls are numbered in the order they are made, and runs is history:
   the calls of executeAnalysis the loop has made *)
LoopIds == 1..MaxLoops
NoLoop == [pc |-> "none", runs |-> 0]
LoopIdle ==
    /\ isRunning = FALSE
    /\ loops = [l \in LoopIds |-> NoLoop]

Init ==
    /\ FetcherInit
    /\ text = <<>>
    /\ records = <<>>
    /\ parsePc = "ready"
    /\ insights = NoInsights
    /\ tradingDecisions = <<>>
    /\ botPc = "ready"
    /\ AnalysisIdle
    /\ RetryIdle
    /\ PricesIdle
    /\ LoopIdle

(* fetchCryptoData up to its first await: the cache check, then the first request *)
Start(c, path, opts) ==
    /\ pc[c] = "idle"
    /\ LET cacheKey == CacheKey(path, now) IN
       /\ args' = [args EXCEPT ![c] = [path |-> path, maxRetries |-> opts.maxRetries,
                                       consistencyCheck |-> opts.consistencyCheck,
                                       useCache |-> opts.useCache]]
       /\ IF opts.useCache /\ CacheLookup(cache, cacheKey).hit
          THEN /\ pc' = [pc EXCEPT ![c] = "returned"]
               /\ result' = [result EXCEPT ![c] = CacheLookup(cache, cacheKey).value]
               /\ loc' = [loc EXCEPT ![c] = [NoLoc EXCEPT !.cacheKey = cacheKey]]
               /\ hist' = [hist EXCEPT ![c] = [NoHist EXCEPT !.hit = TRUE,
                                                            !.startBucket = Bucket(now)]]
          ELSE /\ pc' = [pc EXCEPT ![c] = "fetch"]
               /\ result' = [result EXCEPT ![c] = NoResult]
               /\ loc' = [loc EXCEPT ![c] = [NoLoc EXCEPT !.cacheKey = cacheKey,
                                                          !.url = 1, !.attempt = 1]]
               /\ hist' = [hist EXCEPT ![c] = [NoHist EXCEPT !.round = TRUE,
                                                            !.startBucket = Bucket(now),
                                                            !.reqs[1] = 1]]
    /\ UNCHANGED <<now, cache, parseVars, botVars, analysisVars, retryVars, pricesVars, loopVars>>

(* for (const url of urls): another turn while a url is left *)
MoreUrlsUntilFound(l) == l.url < NumUrls /\ l.bestResult = NoResult
MoreUrls(l) == l.url < NumUrls

(* A candidate has settled with locals l and history h: the next url is
   requested, or the loop is over and the call finishes. *)
Settle(c, l, h, failed) ==
    IF failed /\ CatchRethrows
    THEN /\ pc' = [pc EXCEPT ![c] = "threw"]
         /\ loc' = [loc EXCEPT ![c] = l]
         /\ hist' = [hist EXCEPT ![c] = h]
         /\ result' = [result EXCEPT ![c] = NoResult]
         /\ UNCHANGED cache
    ELSE IF MoreUrls(l)
    THEN /\ pc' = [pc EXCEPT ![c] = "fetch"]
         /\ loc' = [loc EXCEPT ![c] = [l EXCEPT !.url = l.url + 1, !.attempt = 1]]
         /\ hist' = [hist EXCEPT ![c] = [h EXCEPT !.reqs[l.url + 1] = 1]]
         /\ UNCHANGED <<cache, result>>
    ELSE LET f == Finish(l.bestResult, args[c], l.cacheKey, cache, now) IN
         /\ pc' = [pc EXCEPT ![c] = f.pc]
         /\ loc' = [loc EXCEPT ![c] = l]
         /\ hist' = [hist EXCEPT ![c] = [h EXCEPT !.warnings = f.warnings]]
         /\ result' = [result EXCEPT ![c] = f.result]
         /\ cache' = f.cache

(* fetch resolves with response.ok and response.text() gives the body *)
RespondOk(c, body) ==
    /\ pc[c] = "fetch"
    /\ LET p == ProcessBody(loc[c], body, args[c].path, hist[c].startBucket)
           h == [hist[c] EXCEPT !.only500 = FALSE,
                                !.cand[loc[c].url] = p.outcome,
                                !.maxTs = IF p.outcome = "records"
                                          THEN Max(hist[c].maxTs, p.ts)
                                          ELSE hist[c].maxTs]
       IN Settle(c, p.loc, h, FALSE)
    /\ UNCHANGED <<now, args, parseVars, botVars, analysisVars, retryVars, pricesVars, loopVars>>

(* fetch resolves with response.ok and response.text() rejects *)
RespondBodyError(c) ==
    /\ pc[c] = "fetch"
    /\ Settle(c, loc[c], [hist[c] EXCEPT !.only500 = FALSE,
                                         !.cand[loc[c].url] = "failed"], TRUE)
    /\ UNCHANGED <<now, args, parseVars, botVars, analysisVars, retryVars, pricesVars, loopVars>>

(* fetch rejects (transport error) or resolves with a status that is not ok *)
RespondError(c, status) ==
    /\ pc[c] = "fetch"
    /\ LET h == [hist[c] EXCEPT !.only500 = hist[c].only500 /\ status = "500"] IN
       IF LastAttempt(loc[c].attempt, UrlRetries(args[c]))
       THEN Settle(c, loc[c], [h EXCEPT !.cand[loc[c].url] = "failed"], TRUE)
       ELSE /\ pc' = [pc EXCEPT ![c] = "backoff"]
            /\ loc' = [loc EXCEPT ![c].delay = BackoffDelay(loc[c].attempt)]
            /\ hist' = [hist EXCEPT ![c] = h]
            /\ UNCHANGED <<cache, result>>
    /\ UNCHANGED <<now, args, parseVars, botVars, analysisVars, retryVars, pricesVars, loopVars>>

(* the backoff timer fires: the next attempt on the same url *)
BackoffDone(c) ==
    /\ pc[c] = "backoff"
    /\ pc' = [pc EXCEPT ![c] = "fetch"]
    /\ loc' = [loc EXCEPT ![c].attempt = loc[c].attempt + 1, ![c].delay = 0]
    /\ hist' = [hist EXCEPT ![c].reqs[loc[c].url] = hist[c].reqs[loc[c].url] + 1]
    /\ UNCHANGED <<now, cache, args, result, parseVars, botVars, analysisVars, retryVars,
                   pricesVars, loopVars>>

(* the server never answers the outstanding request: fetch has no timeout
   and no abort signal, its promise stays pending *)
NeverAnswer(c) ==
    /\ pc[c] = "fetch"
    /\ pc' = [pc EXCEPT ![c] = "hung"]
    /\ UNCHANGED <<now, cache, args, loc, hist, result, parseVars, botVars, analysisVars,
                   retryVars, pricesVars, loopVars>>

(* the caller has taken the result (or the error); the slot is free for a new call *)
Return(c) ==
    /\ Finished(c)
    /\ pc' = [pc EXCEPT ![c] = "idle"]
    /\ args' = [args EXCEPT ![c] = NoArgs]
    /\ loc' = [loc EXCEPT ![c] = NoLoc]
    /\ hist' = [hist EXCEPT ![c] = NoHist]
    /\ result' = [result EXCEPT ![c] = NoResult]
    /\ UNCHANGED <<now, cache, parseVars, botVars, analysisVars, retryVars, pricesVars, loopVars>>

(* time passes *)
Tick ==
    /\ now < NowStart + MaxTicks * TickMs
    /\ now' = now + TickMs
    /\ UNCHANGED <<cache, pc, args, loc, hist, result, parseVars, botVars, analysisVars,
                   retryVars, pricesVars, loopVars>>

Statuses == {"500", "404", "transport"}

(* One caller at a time, every response *)
Next ==
    \/ \E path \in OnePath, opts \in Options : Start("c1", path, opts)
    \/ \E body \in RoundBodies : RespondOk("c1", body)
    \/ RespondBodyError("c1")
    \/ \E status \in Statuses : RespondError("c1", status)
    \/ BackoffDone("c1")
    \/ NeverAnswer("c1")
    \/ Return("c1")
    \/ Tick

Spec == Init /\ [][Next]_vars

(* Two callers whose calls interleave at their awaits, fewer responses *)
ConcNext ==
    \/ \E c \in Calls, path \in Paths, opts \in ConcOptions : Start(c, path, opts)
    \/ \E c \in Calls, body \in ConcBodies : RespondOk(c, body)
    \/ \E c \in Calls : Return(c)
    \/ Tick

ConcSpec == Init /\ [][ConcNext]_vars

---------------------------------------------------------------------------
(* One response body on its own, handed to the try block of the loop *)
ParseInit ==
    /\ FetcherInit
    /\ text \in Bodies
    /\ records = <<>>
    /\ parsePc = "ready"
    /\ insights = NoInsights
    /\ tradingDecisions = <<>>
    /\ botPc = "ready"
    /\ AnalysisIdle
    /\ RetryIdle
    /\ PricesIdle
    /\ LoopIdle

ParseResponse ==
    /\ parsePc = "ready"
    /\ LET p == ProcessBody([NoLoc EXCEPT !.url = 1], text, "", 0) IN
       records' = IF p.outcome = "records" THEN p.loc.bestResult.records ELSE <<>>
    /\ parsePc' = "done"
    /\ UNCHANGED <<text, fetcherVars, botVars, analysisVars, retryVars, pricesVars, loopVars>>

ParseNext == ParseResponse

ParseSpec == ParseInit /\ [][ParseNext]_vars

---------------------------------------------------------------------------
(* The trading bot on one insight document *)
BotInit ==
    /\ FetcherInit
    /\ text = <<>>
    /\ records = <<>>
    /\ parsePc = "ready"
    /\ insights \in InsightDocs
    /\ tradingDecisions = <<>>
    /\ botPc = "ready"
    /\ AnalysisIdle
    /\ RetryIdle
    /\ PricesIdle
    /\ LoopIdle

AnalyzeSignals ==
    /\ botPc = "ready"
    /\ tradingDecisions' = analyzeSignals(insights)
    /\ botPc' = "analyzed"
    /\ UNCHANGED <<insights, fetcherVars, parseVars, analysisVars, retryVars, pricesVars, loopVars>>

BotNext == AnalyzeSignals

BotSpec == BotInit /\ [][BotNext]_vars

---------------------------------------------------------------------------
(* executeAnalysis on one insight document *)

(* the documents: every short list of signals and of opportunities under an
   exchange_health of 95% and one of 60%; every short exchange_health under
   every market_overview; documents whose opportunities lack their prices *)
AnalysisSignals == [exchange : {"coinbase"}, asset : {"BTC"}, direction : {"bullish"},
                    strength : {800, 850, 900}, confidence : {900}, data_type : {"spot"}]

Doc(sigs, opps, health) ==
    [NoInsights EXCEPT !.has_current_signals = TRUE, !.current_signals = sigs,
                       !.has_arbitrage_opportunities = TRUE, !.arbitrage_opportunities = opps,
                       !.has_exchange_health = TRUE, !.exchange_health = health]

Health(scores) == [i \in 1..Len(scores) |-> [health_score |-> scores[i]]]

ItemDocs ==
    {Doc(sigs, opps, Health(scores)) :
        sigs \in SeqsUpTo(AnalysisSignals, MaxSignals),
        opps \in SeqsUpTo(Opportunities, MaxOpps),
        scores \in {<<95>>, <<60>>}}

StrongSignalDoc == [exchange |-> "coinbase", asset |-> "BTC", direction |-> "bullish",
                    strength |-> 900, confidence |-> 900, data_type |-> "spot"]
HighOpportunity == [asset |-> "ETH", low_exchange |-> "coinbase", high_exchange |-> "kraken",
                    low_price |-> 4300, high_price |-> 4310, price_difference_pct |-> 800]

MarketDocs ==
    {[d EXCEPT !.has_exchange_health = h.has, !.exchange_health = h.value,
               !.has_market_overview = o.has, !.market_overview = o.value] :
        d \in {NoInsights,
                [NoInsights EXCEPT !.has_current_signals = TRUE,
                                   !.has_arbitrage_opportunities = TRUE],
                [NoInsights EXCEPT !.has_current_signals = TRUE,
                                   !.current_signals = <<StrongSignalDoc>>,
                                   !.has_arbitrage_opportunities = TRUE,
                                   !.arbitrage_opportunities = <<HighOpportunity>>]},
        h \in {[has |-> FALSE, value |-> <<>>]} \cup
               {[has |-> TRUE, value |-> hs] : hs \in SeqsUpTo(ExchangeHealths, MaxExchanges)},
        o \in {[has |-> FALSE, value |-> NoOverview], [has |-> TRUE, value |-> NoOverview]} \cup
               {[has |-> TRUE, value |-> ov] : ov \in Overviews}}

MalformedDocs ==
    {Doc(<<>>, <<Unpriced(diff)>>, Health(<<95>>)) : diff \in {200, 300}}

AnalysisDocs == ItemDocs \cup MarketDocs \cup MalformedDocs

AnalysisInit ==
    /\ FetcherInit
    /\ text = <<>>
    /\ records = <<>>
    /\ parsePc = "ready"
    /\ insights \in AnalysisDocs
    /\ tradingDecisions = <<>>
    /\ botPc = "ready"
    /\ AnalysisIdle
    /\ RetryIdle
    /\ PricesIdle
    /\ LoopIdle

(* this.tradingHistory.push(recommendations) *)
tradingHistoryPushDiscards(history, recommendations) == history

tradingHistoryPush(history, recommendations) == Append(history, recommendations)

(* one call of executeAnalysis; insights is the document the url serves *)
ExecuteAnalysis(outcome) ==
    /\ LET r == executeAnalysis(outcome, insights) IN
       /\ analysis' = [pc |-> r.pc, fetch |-> outcome, value |-> r.value, doc |-> r.doc]
       /\ tradingHistory' = IF r.push THEN tradingHistoryPush(tradingHistory, r.value)
                                      ELSE tradingHistory
       /\ analyzed' = IF r.push THEN Append(analyzed, insights) ELSE analyzed
    /\ UNCHANGED <<fetcherVars, parseVars, botVars, retryVars, pricesVars, loopVars>>

AnalysisNext ==
    /\ analysis.pc = "idle"
    /\ ExecuteAnalysis("ok")

AnalysisSpec == AnalysisInit /\ [][AnalysisNext]_vars

---------------------------------------------------------------------------
(* executeAnalysis again and again while the served document changes *)
RunDocs ==
    {NoInsights,
     Doc(<<StrongSignalDoc>>, <<HighOpportunity>>, Health(<<95>>)),
     Doc(<<StrongSignalDoc>>, <<HighOpportunity>>, Health(<<40>>)),
     Doc(<<StrongSignalDoc, [StrongSignalDoc EXCEPT !.strength = 850]>>,
         <<[HighOpportunity EXCEPT !.price_difference_pct = 900]>>, Health(<<95>>))}

RunInit ==
    /\ FetcherInit
    /\ text = <<>>
    /\ records = <<>>
    /\ parsePc = "ready"
    /\ insights \in RunDocs
    /\ tradingDecisions = <<>>
    /\ botPc = "ready"
    /\ AnalysisIdle
    /\ RetryIdle
    /\ PricesIdle
    /\ LoopIdle

(* the server replaces latest.json *)
Publish(doc) ==
    /\ doc # insights
    /\ insights' = doc
    /\ UNCHANGED <<fetcherVars, parseVars, tradingDecisions, botPc, analysisVars,
                   retryVars, pricesVars, loopVars>>

RunNext ==
    \/ \E doc \in RunDocs : Publish(doc)
    \/ /\ Len(tradingHistory) < MaxRuns
       /\ \E outcome \in FetchOutcomes : ExecuteAnalysis(outcome)

RunSpec == RunInit /\ [][RunNext]_vars

---------------------------------------------------------------------------
(* A direct call of fetchWithCacheBusting(url, maxRetries) *)
RetryInit ==
    /\ FetcherInit
    /\ text = <<>>
    /\ records = <<>>
    /\ parsePc = "ready"
    /\ insights = NoInsights
    /\ tradingDecisions = <<>>
    /\ botPc = "ready"
    /\ AnalysisIdle
    /\ RetryIdle
    /\ PricesIdle
    /\ LoopIdle

(* the call up to its first await; with maxRetries 0 the loop has no turn *)
FetchStart(url, maxRetries) ==
    /\ fw.pc = "idle"
    /\ fw' = [NoFetch EXCEPT !.url = url, !.maxRetries = maxRetries,
                             !.pc = IF maxRetries >= 1 THEN "fetch" ELSE "returned",
                             !.attempt = IF maxRetries >= 1 THEN 1 ELSE 0,
                             !.log = IF maxRetries >= 1 THEN <<"request">> ELSE <<>>]
    /\ UNCHANGED <<fetcherVars, parseVars, botVars, analysisVars, pricesVars, loopVars>>

(* response.ok: return response *)
FetchOk ==
    /\ fw.pc = "fetch"
    /\ fw' = [fw EXCEPT !.pc = "returned", !.log = Append(fw.log, "ok")]
    /\ UNCHANGED <<fetcherVars, parseVars, botVars, analysisVars, pricesVars, loopVars>>

(* the catch: throw on the last attempt, else compute the delay and wait *)
FetchFail(status) ==
    /\ fw.pc = "fetch"
    /\ fw' = IF LastAttempt(fw.attempt, fw.maxRetries)
             THEN [fw EXCEPT !.pc = "threw", !.error = status,
                             !.log = Append(fw.log, "failed")]
             ELSE [fw EXCEPT !.pc = "backoff", !.error = status,
                             !.delay = BackoffDelay(fw.attempt),
                             !.log = Append(fw.log, "failed")]
    /\ UNCHANGED <<fetcherVars, parseVars, botVars, analysisVars, pricesVars, loopVars>>

(* the timer of the wait fires: the next turn of the loop *)
FetchBackoffDone ==
    /\ fw.pc = "backoff"
    /\ fw' = [fw EXCEPT !.pc = "fetch", !.attempt = fw.attempt + 1,
                        !.waits = Append(fw.waits, fw.delay), !.delay = 0,
                        !.log = fw.log \o <<"waited", "request">>]
    /\ UNCHANGED <<fetcherVars, parseVars, botVars, analysisVars, pricesVars, loopVars>>

RetryNext ==
    \/ \E url \in Urls, maxRetries \in 0..MaxDirectRetries : FetchStart(url, maxRetries)
    \/ FetchOk
    \/ \E status \in Statuses : FetchFail(status)
    \/ FetchBackoffDone

RetrySpec == RetryInit /\ [][RetryNext]_vars

---------------------------------------------------------------------------
(* Properties of the fetcher *)

---------------------------------------------------------------------------
(* CryptoDataFetcher.getLatestPrices *)
Exchanges == <<"coinbase", "kraken">>
Assets == <<"BTC", "ETH", "ADA", "XRP">>

(* the pairs in the order of the two nested loops *)
Pairs == [k \in 1..(Len(Exchanges) * Len(Assets)) |->
            <<Exchanges[((k - 1) \div Len(Assets)) + 1], Assets[((k - 1) % Len(Assets)) + 1]>>]

(* `${exchange}/${asset}/${timeframe}/${date}.jsonl` with timeframe '1min' *)
PathOf(pair) == pair[1] \o "/" \o pair[2] \o "/1min/d.jsonl"

(* the loop over the urls from l.url on, run to its end on the responses *)
RECURSIVE RoundOver(_, _, _, _)
RoundOver(l, responses, path, bucket) ==
    LET r == responses[l.url]
        after == IF r.failed THEN l ELSE ProcessBody(l, r.body, path, bucket).loc IN
    IF MoreUrls(after)
    THEN RoundOver([after EXCEPT !.url = after.url + 1], responses, path, bucket)
    ELSE after

(* one call of fetchCryptoData run to its end with no other call in between:
   the cache check, the round, then throw or check, store and return *)
fetchCryptoData(path, opts, responses, c, t) ==
    LET cacheKey == CacheKey(path, t) IN
    IF opts.useCache /\ CacheLookup(c, cacheKey).hit
    THEN [pc |-> "returned", result |-> CacheLookup(c, cacheKey).value,
          cache |-> c, warnings |-> {}]
    ELSE LET l == RoundOver([NoLoc EXCEPT !.cacheKey = cacheKey, !.url = 1, !.attempt = 1],
                            responses, path, Bucket(t)) IN
         Finish(l.bestResult, opts, cacheKey, c, t)

(* results[exchange][asset] = null, and the entry built from the last record;
   spread, volume and fetchTime are left out *)
NullEntry == [isNull |-> TRUE, price |-> undefined, timestamp |-> undefined, recordCount |-> 0]

EntryOfFirstRecord(data) ==
    [isNull |-> FALSE, price |-> data.records[1].mid, timestamp |-> data.records[1].t,
     recordCount |-> Len(data.records)]

EntryOf(data) ==
    LET lastRecord == data.records[Len(data.records)] IN
    [isNull |-> FALSE, price |-> lastRecord.mid, timestamp |-> lastRecord.t,
     recordCount |-> Len(data.records)]

(* the catch of the inner loop sets the entry to null and goes on *)
PairCatchRethrowsAlways == TRUE
PairCatchRethrows == FALSE

(* the responses of the three candidate urls of one pair; for each url
   fetchWithCacheBusting threw after its attempts, or it returned a response
   with this body *)
PairResponses ==
    LET Failed == [failed |-> TRUE, body |-> <<>>]
        Answer(body) == [failed |-> FALSE, body |-> body]
        FreshBody == <<PricedLine(TNew, 101)>>
        LongBody == <<PricedLine(TNew, 202), PricedLine(TOld, 303)>>
    IN {<<Failed, Failed, Failed>>,
        <<Answer(LongBody), Answer(FreshBody), Failed>>,
        <<Failed, Answer(<<>>), Answer(LongBody)>>}

(* getLatestPrices up to its first await *)
GetLatestPrices(opts) ==
    /\ prices.pc = "idle"
    /\ prices' = [NoPrices EXCEPT !.pc = "loop", !.pair = 1, !.options = opts]
    /\ UNCHANGED <<fetcherVars, parseVars, botVars, analysisVars, retryVars, loopVars>>

(* one turn of the inner loop: fetchCryptoData for the pair has ended *)
PairFetched(responses) ==
    /\ prices.pc = "loop"
    /\ LET pair == Pairs[prices.pair]
           f == fetchCryptoData(PathOf(pair), prices.options, responses, cache, now)
           threw == f.pc = "threw" \/ Len(f.result.records) = 0
           entry == IF threw THEN NullEntry ELSE EntryOf(f.result) IN
       /\ cache' = f.cache
       /\ IF threw /\ PairCatchRethrows
          THEN prices' = [prices EXCEPT !.pc = "threw"]
          ELSE prices' = [prices EXCEPT
                 !.pc = IF prices.pair = Len(Pairs) THEN "returned" ELSE "loop",
                 !.pair = prices.pair + 1,
                 !.results = [p \in DOMAIN prices.results \cup {pair} |->
                                 IF p = pair THEN entry ELSE prices.results[p]],
                 !.resolved = Append(prices.resolved,
                                     [path |-> PathOf(pair), threw |-> f.pc = "threw",
                                      result |-> f.result])]
    /\ UNCHANGED <<now, pc, args, loc, hist, result, parseVars, botVars, analysisVars,
                   retryVars, loopVars>>

PricesNext ==
    \/ \E opts \in ConcOptions : GetLatestPrices(opts)
    \/ \E responses \in PairResponses : PairFetched(responses)

PricesSpec == Init /\ [][PricesNext]_vars

---------------------------------------------------------------------------
(* CryptoTradingBot.startAutoAnalysis and stop *)

(* the documents served while the loop runs: one that is analysed, and one on
   which executeAnalysis throws *)
LoopDocs ==
    {Doc(<<StrongSignalDoc>>, <<HighOpportunity>>, Health(<<95>>)),
     Doc(<<>>, <<Unpriced(300)>>, Health(<<95>>))}

LoopInit ==
    /\ FetcherInit
    /\ text = <<>>
    /\ records = <<>>
    /\ parsePc = "ready"
    /\ insights \in LoopDocs
    /\ tradingDecisions = <<>>
    /\ botPc = "ready"
    /\ AnalysisIdle
    /\ RetryIdle
    /\ PricesIdle
    /\ LoopIdle

(* while (this.isRunning) *)
LoopTestAlways(running) == TRUE
LoopTest(running) == running

RunsMade == Sum([l \in LoopIds |-> loops[l].runs])

(* startAutoAnalysis up to its first await: the flag is set, the loop is
   entered and executeAnalysis is called *)
StartAutoAnalysis(l) ==
    /\ loops[l].pc = "none"
    /\ \A k \in LoopIds : k < l => loops[k].pc # "none"
    /\ RunsMade < MaxRuns
    /\ isRunning' = TRUE
    /\ loops' = [loops EXCEPT ![l] = IF LoopTest(TRUE) THEN [pc |-> "analysis", runs |-> 1]
                                     ELSE [pc |-> "done", runs |-> 0]]
    /\ UNCHANGED <<fetcherVars, parseVars, botVars, analysisVars, retryVars, pricesVars>>

(* the executeAnalysis awaited by the loop ends: the sleep of the interval
   follows, or in the catch the sleep of one minute *)
AnalysisEnds(l, outcome) ==
    /\ loops[l].pc = "analysis"
    /\ LET r == executeAnalysis(outcome, insights) IN
       /\ analysis' = [pc |-> r.pc, fetch |-> outcome, value |-> r.value, doc |-> r.doc]
       /\ tradingHistory' = IF r.push THEN tradingHistoryPush(tradingHistory, r.value)
                                      ELSE tradingHistory
       /\ analyzed' = IF r.push THEN Append(analyzed, insights) ELSE analyzed
       /\ loops' = [loops EXCEPT ![l].pc = IF r.pc = "threw" THEN "errorSleep" ELSE "sleep"]
    /\ UNCHANGED <<isRunning, fetcherVars, parseVars, botVars, retryVars, pricesVars>>

(* the timer of the sleep fires: the loop tests the flag, and calls
   executeAnalysis again or ends *)
Wake(l) ==
    /\ loops[l].pc \in {"sleep", "errorSleep"}
    /\ LoopTest(isRunning) => RunsMade < MaxRuns
    /\ loops' = [loops EXCEPT ![l] = IF LoopTest(isRunning)
                                     THEN [pc |-> "analysis", runs |-> loops[l].runs + 1]
                                     ELSE [pc |-> "done", runs |-> loops[l].runs]]
    /\ UNCHANGED <<isRunning, fetcherVars, parseVars, botVars, analysisVars, retryVars,
                   pricesVars>>

(* stop(): this.isRunning = false *)
Stop ==
    /\ isRunning
    /\ isRunning' = FALSE
    /\ UNCHANGED <<loops, fetcherVars, parseVars, botVars, analysisVars, retryVars, pricesVars>>

LoopNext ==
    \/ \E l \in LoopIds : StartAutoAnalysis(l)
    \/ \E l \in LoopIds, outcome \in {"ok", "transport"} : AnalysisEnds(l, outcome)
    \/ \E l \in LoopIds : Wake(l)
    \/ Stop

LoopSpec == LoopInit /\ [][LoopNext]_vars

(* every pending executeAnalysis ends and every timer fires *)
LoopFairSpec == LoopSpec /\ \A l \in LoopIds : WF_vars(Wake(l) \/ \E outcome \in {"ok", "transport"} : AnalysisEnds(l, outcome))

LastT(r) == r.records[Len(r.records)].t
NoRequests(c) == \A u \in Urls : hist[c].reqs[u] = 0
CallStep(c) ==
    \/ \E body \in RoundBodies : RespondOk(c, body)
    \/ RespondBodyError(c)
    \/ \E status \in Statuses : RespondError(c, status)
    \/ BackoffDone(c)

(* C1: a call that ran a network round and returned: the t of the last record
   of its result is the greatest last-record timestamp among the candidates
   of the round that yielded at least one record. *)
C1_ReturnsFreshest ==
    \A c \in Calls :
        (pc[c] = "returned" /\ hist[c].round) =>
            /\ result[c] # NoResult
            /\ LastT(result[c]) = hist[c].maxTs
            /\ result[c].timestamp = hist[c].maxTs

C1_Witness ==
    \E c \in Calls :
        /\ pc[c] = "returned" /\ hist[c].round
        /\ hist[c].cand[1] = "records" /\ hist[c].cand[2] = "records"
        /\ result[c].url = 2
        /\ Len(result[c].records) = 2
        /\ result[c].records[1].t > LastT(result[c])

(* C2: a call with useCache whose (path, time bucket) has a stored result
   returns that result and issues no request; a call is served from the cache
   only with a result stored for its own path and its own time bucket. *)
C2_CacheReuseWithinBucket ==
    [][\A c \in Calls :
        (pc[c] = "idle" /\ pc'[c] # "idle" /\ args'[c].useCache) =>
            LET stored == {k \in DOMAIN cache :
                              /\ cache[k].path = args'[c].path
                              /\ cache[k].keyBucket = Bucket(now)}
            IN /\ stored # {} =>
                    /\ pc'[c] = "returned"
                    /\ \A u \in Urls : hist'[c].reqs[u] = 0
                    /\ result'[c] \in {cache[k] : k \in stored}
               /\ hist'[c].hit =>
                    /\ stored # {}
                    /\ result'[c] \in {cache[k] : k \in stored}]_vars

C2_Witness ==
    \E c \in Calls :
        /\ pc[c] = "returned" /\ hist[c].hit /\ NoRequests(c)
        /\ result[c] # NoResult
        /\ result[c].keyBucket = Bucket(now)
        /\ now > NowStart

(* C3: if every request is answered with HTTP 500, a call with option
   maxRetries = m throws after exactly m requests to each candidate url. *)
C3_ExactlyMaxRetriesPerUrl ==
    \A c \in Calls :
        (pc[c] = "threw" /\ hist[c].round /\ hist[c].only500) =>
            \A u \in Urls : hist[c].reqs[u] = args[c].maxRetries

(* C4: a call that ran a round throws exactly when no candidate produced a
   record; when some candidate did, it returns a result. *)
C4_ThrowsIffNoRecords ==
    \A c \in Calls :
        (Finished(c) /\ hist[c].round) =>
            /\ pc[c] = "threw" <=> (\A u \in Urls : hist[c].cand[u] # "records")
            /\ pc[c] = "returned" => result[c] # NoResult

C4_Witness ==
    /\ \E c \in Calls :
        /\ pc[c] = "returned" /\ hist[c].round
        /\ hist[c].cand = [u \in Urls |-> IF u = NumUrls THEN "records" ELSE "failed"]

(* C5: a candidate that exhausts its retries does not end the round: every
   url is requested and settled, and the call returns a result if another
   candidate produced records. *)
C5_ExhaustionDoesNotAbort ==
    \A c \in Calls :
        (Finished(c) /\ hist[c].round) =>
            /\ \A u \in Urls : hist[c].reqs[u] >= 1 /\ hist[c].cand[u] # "none"
            /\ (\E u \in Urls : hist[c].cand[u] = "records") => pc[c] = "returned"

C5_Witness ==
    \E c \in Calls :
        /\ pc[c] = "returned" /\ hist[c].round
        /\ hist[c].cand[1] = "failed" /\ hist[c].reqs[1] = FetchRetries
        /\ hist[c].cand[2] = "records" /\ hist[c].cand[3] = "failed"
        /\ result[c].url = 2

(* C7: the consistency check is advisory.  From any state of a round, the code
   after the loop gives the same outcome, result and cache with
   consistencyCheck true as with consistencyCheck false; a call whose round
   found a result returns the result arbitration chose, whatever the warnings,
   with no more than the fixed number of requests per url. *)
C7_ConsistencyCheckAdvisory ==
    \A c \in Calls :
        /\ InRound(c) =>
            LET on == Finish(loc[c].bestResult, [args[c] EXCEPT !.consistencyCheck = TRUE],
                             loc[c].cacheKey, cache, now)
                off == Finish(loc[c].bestResult, [args[c] EXCEPT !.consistencyCheck = FALSE],
                              loc[c].cacheKey, cache, now)
            IN on.pc = off.pc /\ on.result = off.result /\ on.cache = off.cache
        /\ (Finished(c) /\ hist[c].round /\ loc[c].bestResult # NoResult) =>
            /\ pc[c] = "returned"
            /\ result[c] = loc[c].bestResult
            /\ \A u \in Urls : hist[c].reqs[u] <= FetchRetries

C7_Witness ==
    \E c \in Calls :
        /\ pc[c] = "returned" /\ hist[c].round
        /\ args[c].consistencyCheck
        /\ hist[c].warnings = {"stale", "few"}
        /\ \E u \in Urls : hist[c].cand[u] = "records" /\ u # result[c].url

(* C8: two calls with the same path in the same time bucket are never both in
   a network round. *)
C8_OneRoundPerKey ==
    \A c1, c2 \in Calls :
        (c1 # c2 /\ InRound(c1) /\ InRound(c2)) =>
            ~(/\ args[c1].path = args[c2].path
              /\ hist[c1].startBucket = hist[c2].startBucket)

(* C9: every outstanding request is bounded: a call in a round can always
   take its next step (a response, or the end of a wait). *)
C9_EveryRequestEnds ==
    \A c \in Calls : InRound(c) => ENABLED CallStep(c)

---------------------------------------------------------------------------
(* Properties of the parser *)

RECURSIVE ValuesOf(_, _)
ValuesOf(body, kinds) ==
    IF body = <<>> THEN <<>>
    ELSE (IF Head(body).kind \in kinds
          THEN <<IF Head(body).kind = "null" THEN NullRecord
                 ELSE [isNull |-> FALSE, t |-> Head(body).t, mid |-> Head(body).mid]>>
          ELSE <<>>) \o ValuesOf(Tail(body), kinds)

(* C6 as stated: the records of a body are the values of its lines that are
   valid JSON, in order. *)
C6_RecordsAreParseableLines ==
    parsePc = "done" => records = ValuesOf(text, {"obj", "null"})

(* C6 amended: the records of a body are the values of its lines that are
   valid JSON other than the literal null, in order; lines that fail to parse
   and null lines are dropped and the other lines are kept. *)
C6_RecordsAreNonNullParseableLines ==
    parsePc = "done" => records = ValuesOf(text, {"obj"})

C6_Witness ==
    /\ parsePc = "done"
    /\ Len(text) = 2 /\ text[1] = BadLine /\ text[2].kind = "obj"
    /\ Len(records) = 1

---------------------------------------------------------------------------
(* Properties of the signal filter *)

RECURSIVE KeptSignals(_)
KeptSignals(sigs) ==
    IF sigs = <<>> THEN <<>>
    ELSE (IF Head(sigs).strength > 700 /\ Head(sigs).confidence > 600
          THEN <<Head(sigs)>> ELSE <<>>) \o KeptSignals(Tail(sigs))

(* C10: analyzeSignals returns one decision for each signal with strength > 0.7
   and confidence > 0.6, both strict, in input order, and nothing else. *)
C10_SignalFilter ==
    botPc = "analyzed" =>
        LET kept == KeptSignals(insights.current_signals) IN
        /\ Len(tradingDecisions) = Len(kept)
        /\ \A i \in 1..Len(kept) :
            /\ tradingDecisions[i].strength = kept[i].strength
            /\ tradingDecisions[i].confidence = kept[i].confidence
            /\ tradingDecisions[i].action = kept[i].direction
            /\ tradingDecisions[i].asset = kept[i].asset
            /\ tradingDecisions[i].exchange = kept[i].exchange

C10_Witness ==
    /\ botPc = "analyzed"
    /\ Len(insights.current_signals) = 2
    /\ insights.current_signals[1].strength = 800
    /\ insights.current_signals[1].confidence = 700
    /\ insights.current_signals[2].strength = 500
    /\ insights.current_signals[2].confidence = 900
    /\ Len(tradingDecisions) = 1
    /\ tradingDecisions[1].strength = 800

---------------------------------------------------------------------------
(* Properties of executeAnalysis on one document *)

Analyzed == analysis.pc = "returned" /\ analysis.value.defined

RECURSIVE KeptOpportunities(_)
KeptOpportunities(opps) ==
    IF opps = <<>> THEN <<>>
    ELSE (IF Head(opps).price_difference_pct > 250 THEN <<Head(opps)>> ELSE <<>>)
         \o KeptOpportunities(Tail(opps))

(* C11: analyzeArbitrage returns exactly the opportunities with a price
   difference strictly above 0.25%, in input order, each with a net profit of
   its price difference minus 0.2%; a difference of 0.2 is left out and a
   difference of 0.3 gets the net profit 0.1. *)
C11_ArbitrageFilter ==
    Analyzed =>
        LET kept == KeptOpportunities(insights.arbitrage_opportunities)
            arbs == analysis.value.arbitrageOpportunities IN
        /\ Len(arbs) = Len(kept)
        /\ \A i \in 1..Len(kept) :
            /\ arbs[i].grossProfitPct = kept[i].price_difference_pct
            /\ arbs[i].netProfitPct = kept[i].price_difference_pct - 200
            /\ arbs[i].asset = kept[i].asset
            /\ arbs[i].buyExchange = kept[i].low_exchange
            /\ arbs[i].sellExchange = kept[i].high_exchange
        /\ \A i \in 1..Len(arbs) :
            /\ arbs[i].grossProfitPct # 200
            /\ arbs[i].grossProfitPct = 300 => arbs[i].netProfitPct = 100

C11_Witness ==
    /\ Analyzed
    /\ Len(insights.arbitrage_opportunities) = 2
    /\ insights.arbitrage_opportunities[1].price_difference_pct = 200
    /\ insights.arbitrage_opportunities[2].price_difference_pct = 300
    /\ Len(analysis.value.arbitrageOpportunities) = 1
    /\ analysis.value.arbitrageOpportunities[1].netProfitPct = 100

NotPoor == analysis.value.marketCondition.healthStatus # "poor"

ArbitrageItems == SelectSeq(analysis.value.actionItems, LAMBDA it : it.kind = "ARBITRAGE")

(* the arbitrage items of the action items are those of the opportunities
   arbs, one each, in that order *)
ArbitrageItemsAre(arbs) ==
    /\ Len(ArbitrageItems) = Len(arbs)
    /\ \A i \in 1..Len(arbs) :
        /\ ArbitrageItems[i].asset = arbs[i].asset
        /\ ArbitrageItems[i].value * 10 = arbs[i].netProfitPct

(* C12 as stated: when the market health is not poor, every opportunity that
   passes the raw filter with a positive net profit has an arbitrage item in
   the action items; one with a price difference of 0.3 is included. *)
C12_PositiveNetProfitListed ==
    (Analyzed /\ NotPoor) =>
        ArbitrageItemsAre(SelectSeq(analysis.value.arbitrageOpportunities,
                                    LAMBDA a : a.netProfitPct > 0))

(* C12, amended: when the market health is not poor, the arbitrage items of
   the action items are those of the opportunities with a net profit strictly
   above 0.5%, and no others; one with a price difference of 0.3 (net profit
   0.1) has no item. *)
C12_HighNetProfitListed ==
    (Analyzed /\ NotPoor) =>
        /\ ArbitrageItemsAre(SelectSeq(analysis.value.arbitrageOpportunities,
                                       LAMBDA a : a.netProfitPct > 500))
        /\ \A i \in 1..Len(ArbitrageItems) : ArbitrageItems[i].value # 10

C12_Witness ==
    /\ Analyzed
    /\ NotPoor
    /\ Len(analysis.value.arbitrageOpportunities) = 2
    /\ analysis.value.arbitrageOpportunities[1].netProfitPct = 100
    /\ analysis.value.arbitrageOpportunities[2].netProfitPct = 600
    /\ Len(ArbitrageItems) = 1
    /\ ArbitrageItems[1].value = 60

(* C13 as stated: the market health is the average of the health scores of
   the exchanges, classified healthy above 80, degraded from 60 to 80
   inclusive and poor below 60; 95 and 60 average 77.5, degraded; an average
   of exactly 60 is degraded. *)
C13_HealthClassification ==
    (Analyzed /\ Len(insights.exchange_health) > 0
              /\ \A i \in 1..Len(insights.exchange_health) :
                     insights.exchange_health[i].health_score # undefined) =>
        LET n == Len(insights.exchange_health)
            total == Sum([i \in 1..n |-> insights.exchange_health[i].health_score])
            m == analysis.value.marketCondition IN
        /\ m.overallHealth.num * n = total * m.overallHealth.den
        /\ m.healthStatus = IF total > 80 * n THEN "healthy"
                            ELSE IF total >= 60 * n THEN "degraded"
                            ELSE "poor"
        /\ (n = 2 /\ total = 155) =>
                /\ m.overallHealth.num * 10 = 775 * m.overallHealth.den
                /\ m.healthStatus = "degraded"

ItemKinds == [i \in 1..Len(analysis.value.actionItems) |-> analysis.value.actionItems[i].kind]

(* C14: when the market health is classified poor, the action items are one
   caution item and nothing else, whatever the signals and the arbitrage
   opportunities of the document. *)
C14_PoorOnlyCaution ==
    (Analyzed /\ analysis.value.marketCondition.healthStatus = "poor") =>
        ItemKinds = <<"WAIT">>

C14_Witness ==
    /\ Analyzed
    /\ analysis.value.marketCondition.healthStatus = "poor"
    /\ Len(analysis.value.tradingSignals) = 1
    /\ analysis.value.tradingSignals[1].strength = 900
    /\ Len(analysis.value.arbitrageOpportunities) = 1
    /\ analysis.value.arbitrageOpportunities[1].netProfitPct = 600
    /\ Len(analysis.value.actionItems) = 1

Rank(kind) ==
    IF kind = "ARBITRAGE" THEN 1
    ELSE IF kind \in {"BULLISH", "BEARISH"} THEN 2
    ELSE IF kind = "Market" THEN 3
    ELSE IF kind = "HOLD" THEN 4
    ELSE 0

(* C15: when the market health is not poor, the action items are in the order
   of the priorities: the arbitrage items, then the strong-signal items, then
   exactly one market-condition line, then the hold item if there is one. *)
C15_PriorityOrder ==
    (Analyzed /\ NotPoor) =>
        /\ \A i \in 1..Len(ItemKinds) : Rank(ItemKinds[i]) >= 1
        /\ \A i, j \in 1..Len(ItemKinds) : i < j => Rank(ItemKinds[i]) <= Rank(ItemKinds[j])
        /\ Cardinality({i \in 1..Len(ItemKinds) : ItemKinds[i] = "Market"}) = 1
        /\ Cardinality({i \in 1..Len(ItemKinds) : ItemKinds[i] = "HOLD"}) <= 1

C15_Witness ==
    /\ Analyzed
    /\ NotPoor
    /\ ItemKinds = <<"ARBITRAGE", "ARBITRAGE", "BULLISH", "Market">>

SignalItems == SelectSeq(analysis.value.actionItems,
                         LAMBDA it : it.kind \in {"BULLISH", "BEARISH"})

(* C16 as stated: among the action items the arbitrage items are in
   descending order of net profit and the strong-signal items in descending
   order of strength, whatever the order of the document. *)
C16_SortedWithinCategory ==
    (Analyzed /\ NotPoor) =>
        /\ \A i, j \in 1..Len(ArbitrageItems) :
               i < j => ArbitrageItems[i].value >= ArbitrageItems[j].value
        /\ \A i, j \in 1..Len(SignalItems) :
               i < j => SignalItems[i].value >= SignalItems[j].value

(* C16, amended: among the action items the arbitrage items and the
   strong-signal items each keep the order of the document; nothing is
   sorted. *)
C16_InputOrderWithinCategory ==
    (Analyzed /\ NotPoor) =>
        LET opps == SelectSeq(insights.arbitrage_opportunities,
                              LAMBDA o : o.price_difference_pct > 700)
            sigs == SelectSeq(insights.current_signals,
                              LAMBDA g : g.strength > 800 /\ g.confidence > 600) IN
        /\ Len(ArbitrageItems) = Len(opps)
        /\ \A i \in 1..Len(opps) :
               ArbitrageItems[i].value * 10 = opps[i].price_difference_pct - 200
        /\ Len(SignalItems) = Len(sigs)
        /\ \A i \in 1..Len(sigs) : SignalItems[i].value * 10 = sigs[i].strength

C16_Witness ==
    /\ Analyzed
    /\ NotPoor
    /\ Len(insights.arbitrage_opportunities) = 2
    /\ insights.arbitrage_opportunities[1].price_difference_pct = 800
    /\ insights.arbitrage_opportunities[2].price_difference_pct = 900
    /\ Len(insights.current_signals) = 2
    /\ insights.current_signals[1].strength = 850
    /\ insights.current_signals[2].strength = 900
    /\ Len(ArbitrageItems) = 2
    /\ ArbitrageItems[1].value < ArbitrageItems[2].value
    /\ Len(SignalItems) = 2
    /\ SignalItems[1].value < SignalItems[2].value

(* every sub-collection of the document is empty or missing *)
EmptyDocument ==
    /\ insights.current_signals = <<>>
    /\ insights.arbitrage_opportunities = <<>>
    /\ insights.exchange_health = <<>>
    /\ insights.market_overview = NoOverview

(* C17 as stated: the analysis of a document whose sub-collections are empty
   or missing does not raise; it gives no trading signal, no arbitrage
   opportunity, and action items that contain the hold item. *)
C17_EmptyDocumentHolds ==
    (EmptyDocument /\ analysis.fetch = "ok") =>
        /\ Analyzed
        /\ analysis.value.tradingSignals = <<>>
        /\ analysis.value.arbitrageOpportunities = <<>>
        /\ \E i \in 1..Len(ItemKinds) : ItemKinds[i] = "HOLD"

(* C17, amended: the analysis of a document whose sub-collections are empty
   or missing does not raise; it gives no trading signal and no arbitrage
   opportunity; the average health of no exchange is 0, which is poor, so the
   action items are the one caution item, without a hold item. *)
C17_EmptyDocumentCaution ==
    (EmptyDocument /\ analysis.fetch = "ok") =>
        /\ Analyzed
        /\ analysis.value.tradingSignals = <<>>
        /\ analysis.value.arbitrageOpportunities = <<>>
        /\ analysis.value.marketCondition.overallHealth.num = 0
        /\ ItemKinds = <<"WAIT">>

C17_Witness ==
    /\ EmptyDocument
    /\ insights.has_current_signals
    /\ ~insights.has_exchange_health
    /\ Analyzed
    /\ Len(analysis.value.actionItems) = 1

---------------------------------------------------------------------------
(* Properties of executeAnalysis called again and again *)

FetchFailed == analysis.fetch \in {"status", "transport", "parse"}

(* C18 as stated: when the document cannot be retrieved or parsed, the call of
   executeAnalysis fails with an error that reaches the caller. *)
C18_FailureSurfaced == FetchFailed => analysis.pc = "threw"

(* C18, amended: when the document cannot be retrieved or parsed,
   getMLInsights gives null and executeAnalysis completes normally: it returns
   undefined, leaves tradingHistory as it was, and no error reaches the
   caller. *)
C18_FailureSwallowed ==
    [][(analysis'.fetch \in {"status", "transport", "parse"} /\ analysis' # analysis) =>
          /\ analysis'.pc = "returned"
          /\ ~analysis'.value.defined
          /\ tradingHistory' = tradingHistory]_vars

C18_Witness ==
    /\ FetchFailed
    /\ analysis.pc = "returned"
    /\ ~analysis.value.defined
    /\ Len(tradingHistory) = 1

(* C19: two analyses of the same document give the same tradingSignals and
   the same arbitrageOpportunities, whatever was analyzed in between. *)
C19_SameDocumentSameResult ==
    \A i, j \in 1..Len(tradingHistory) :
        analyzed[i] = analyzed[j] =>
            /\ tradingHistory[i].tradingSignals = tradingHistory[j].tradingSignals
            /\ tradingHistory[i].arbitrageOpportunities = tradingHistory[j].arbitrageOpportunities

C19_Witness ==
    /\ Len(tradingHistory) = 3
    /\ analyzed[1] = analyzed[3]
    /\ analyzed[2] # analyzed[1]
    /\ Len(tradingHistory[3].tradingSignals) = 2
    /\ Len(tradingHistory[2].tradingSignals) = 1
    /\ Len(tradingHistory[3].arbitrageOpportunities) = 1

---------------------------------------------------------------------------
(* Properties of the retry loop of fetchWithCacheBusting *)

(* 1s, 2s, 4s, then 5s *)
ClaimedWait(k) == IF k = 1 THEN 1000 ELSE IF k = 2 THEN 2000 ELSE IF k = 3 THEN 4000 ELSE 5000

(* C20: the wait after the k-th failed attempt, k < maxRetries, is
   min(1000 * 2^(k-1), 5000) ms: 1s, 2s, 4s, then 5s; each later attempt
   comes after its wait, and no wait follows the last failed attempt. *)
C20_BackoffSchedule ==
    /\ \A k \in 1..Len(fw.waits) : fw.waits[k] = ClaimedWait(k)
    /\ fw.pc = "fetch" => Len(fw.waits) = fw.attempt - 1
    /\ fw.pc = "backoff" =>
          /\ fw.attempt < fw.maxRetries
          /\ Len(fw.waits) = fw.attempt - 1
          /\ fw.delay = ClaimedWait(fw.attempt)
    /\ fw.pc = "threw" =>
          /\ fw.attempt = fw.maxRetries
          /\ Len(fw.waits) = fw.maxRetries - 1

C20_Witness ==
    /\ fw.pc = "threw"
    /\ fw.maxRetries = 5
    /\ fw.waits = <<1000, 2000, 4000, 5000>>

Requests == Cardinality({i \in 1..Len(fw.log) : fw.log[i] = "request"})

(* C21: the attempts on a url are one after the other: a request after the
   first comes only after the request before it has failed and the wait after
   that failure has elapsed; nothing is requested after a response that is
   ok; a call that has ended has sent between 1 and maxRetries requests. *)
C21_SequentialAttempts ==
    fw.maxRetries >= 1 =>
        /\ \A i \in 1..Len(fw.log) :
              /\ (fw.log[i] = "request" /\ i > 1) =>
                    /\ i > 3
                    /\ fw.log[i - 1] = "waited"
                    /\ fw.log[i - 2] = "failed"
                    /\ fw.log[i - 3] = "request"
              /\ fw.log[i] = "ok" => i = Len(fw.log)
        /\ Requests = fw.attempt
        /\ Requests <= fw.maxRetries
        /\ fw.pc \in {"returned", "threw"} => Requests >= 1
        /\ fw.pc = "threw" => Requests = fw.maxRetries

C21_Witness ==
    /\ fw.pc = "returned"
    /\ fw.maxRetries = 4
    /\ fw.log = <<"request", "failed", "waited", "request", "failed", "waited", "request", "ok">>

---------------------------------------------------------------------------
(* Properties of the candidates of a round *)

(* C22: a candidate whose response is ok but has an empty body, only blank
   lines or no line that parses is a failed candidate: it is not the winner,
   and the candidates after it are still requested. *)
C22_EmptyCandidateFails ==
    \A c \in Calls :
        /\ (pc[c] = "returned" /\ hist[c].round) => hist[c].cand[result[c].url] = "records"
        /\ (Finished(c) /\ hist[c].round) =>
              \A u \in Urls :
                  hist[c].cand[u] = "empty" =>
                      \A v \in Urls : v > u => (hist[c].reqs[v] >= 1 /\ hist[c].cand[v] # "none")

C22_Witness ==
    /\ pc["c1"] = "returned"
    /\ hist["c1"].cand[1] = "empty"
    /\ hist["c1"].cand[2] = "records"
    /\ hist["c1"].cand[3] = "empty"
    /\ result["c1"].url = 2

AllSettled(h) == \A u \in Urls : h.cand[u] # "none"

(* C23: the winner of a round is decided after every candidate url of the
   round has settled: a call returns from a round, and the cache is written,
   only when no candidate of the round is outstanding or untried. *)
C23_WinnerAfterAllSettled ==
    /\ [](\A c \in Calls : (Finished(c) /\ hist[c].round) => AllSettled(hist[c]))
    /\ [][cache' # cache =>
             \E c \in Calls : /\ InRound(c)
                              /\ pc'[c] = "returned"
                              /\ AllSettled(hist'[c])
                              /\ args[c].useCache]_vars

C23_Witness ==
    /\ pc["c1"] = "returned"
    /\ hist["c1"].round
    /\ result["c1"].url = 1
    /\ \A u \in Urls : hist["c1"].cand[u] = "records"
    /\ cache # <<>>

---------------------------------------------------------------------------
(* Properties of the cache under calls that interleave *)

(* C24: right after a call has stored a result, every slot of the cache is of
   the current time bucket, whatever calls, keys and clock advances came
   before. *)
C24_StorePrunesOtherBuckets ==
    [][cache' # cache =>
          \A k \in DOMAIN cache' :
              /\ cache'[k].keyBucket = Bucket(now')
              /\ k = CacheKey(cache'[k].path, now')]_vars

C24_Witness ==
    \E c, d \in Calls :
        /\ pc[c] = "returned" /\ hist[c].round /\ args[c].useCache
        /\ pc[d] = "returned" /\ hist[d].round /\ args[d].useCache
        /\ args[c].path # args[d].path
        /\ result[d].keyBucket = Bucket(NowStart)
        /\ hist[c].startBucket = Bucket(NowStart) + 1
        /\ DOMAIN cache = {CacheKey(args[c].path, now)}

(* C25: when a call with useCache returns from a network round, its result
   is in the cache under the key of the current time bucket, also when the
   round ends in a later bucket than the one it began in. *)
C25_ResultCachedInCurrentBucket ==
    [][\A c \in Calls :
         (InRound(c) /\ pc'[c] = "returned" /\ args[c].useCache) =>
             LET key == CacheKey(args[c].path, now') IN
             /\ key \in DOMAIN cache'
             /\ cache'[key] = result'[c]]_vars

(* C26: a slot stored for a key in a time bucket stays as it is for the rest
   of that bucket: no step within the bucket removes it or replaces its
   result, however the calls interleave. *)
C26_SlotPinnedWithinBucket ==
    [][\A k \in DOMAIN cache :
         cache[k].keyBucket = Bucket(now') =>
             /\ k \in DOMAIN cache'
             /\ cache'[k] = cache[k]]_vars

---------------------------------------------------------------------------
(* More properties of executeAnalysis on one document *)

(* the document with another exchange_health *)
WithHealth(doc, scores) ==
    [doc EXCEPT !.has_exchange_health = TRUE, !.exchange_health = Health(scores)]

(* C27: the tradingSignals and the arbitrageOpportunities of the analysis do
   not depend on the market health: a document that differs only in
   exchange_health, healthy, poor or without any exchange, gives the same
   two lists. *)
C27_SubAnalysesIgnoreHealth ==
    Analyzed =>
        \A scores \in {<<>>, <<40>>, <<95>>} :
            LET other == executeAnalysis("ok", WithHealth(insights, scores)).value IN
            /\ other.defined
            /\ other.tradingSignals = analysis.value.tradingSignals
            /\ other.arbitrageOpportunities = analysis.value.arbitrageOpportunities

C27_Witness ==
    /\ Analyzed
    /\ analysis.value.marketCondition.healthStatus = "poor"
    /\ Len(analysis.value.tradingSignals) = 2
    /\ Len(analysis.value.arbitrageOpportunities) = 2
    /\ executeAnalysis("ok", WithHealth(insights, <<95>>)).value.marketCondition.healthStatus
           = "healthy"

(* C28: no arbitrage item of the action items is for an opportunity whose
   net profit after fees is zero or negative, whatever the document. *)
C28_NoLossMakingArbitrageItem ==
    Analyzed =>
        \A i \in 1..Len(ArbitrageItems) :
            /\ ArbitrageItems[i].value > 0
            /\ \E j \in 1..Len(insights.arbitrage_opportunities) :
                  /\ insights.arbitrage_opportunities[j].price_difference_pct - 200 > 0
                  /\ insights.arbitrage_opportunities[j].price_difference_pct - 200
                        = ArbitrageItems[i].value * 10

C28_Witness ==
    /\ Analyzed
    /\ NotPoor
    /\ Len(insights.arbitrage_opportunities) = 2
    /\ insights.arbitrage_opportunities[1].price_difference_pct = 200
    /\ insights.arbitrage_opportunities[2].price_difference_pct = 800
    /\ Len(ArbitrageItems) = 1
    /\ ArbitrageItems[1].value = 60

(* C29: when the market health is not poor, the action items contain the hold
   item exactly when they contain no arbitrage item and no strong-signal
   item; the hold item is then the last item, and there is at most one. *)
C29_HoldIffNothingElse ==
    (Analyzed /\ NotPoor) =>
        LET holds == {i \in 1..Len(ItemKinds) : ItemKinds[i] = "HOLD"} IN
        /\ (holds # {}) <=> (ArbitrageItems = <<>> /\ SignalItems = <<>>)
        /\ Cardinality(holds) <= 1
        /\ \A i \in holds : i = Len(ItemKinds)
        /\ Len(SignalItems) = Cardinality({i \in 1..Len(insights.current_signals) :
                                              insights.current_signals[i].strength > 800})

C29_Witness ==
    /\ Analyzed
    /\ NotPoor
    /\ Len(analysis.value.tradingSignals) = 1
    /\ analysis.value.tradingSignals[1].strength = 800
    /\ Len(analysis.value.arbitrageOpportunities) = 1
    /\ analysis.value.arbitrageOpportunities[1].netProfitPct = 500
    /\ ItemKinds = <<"Market", "HOLD">>

(* C30: the analysis does not change its input: after a call the insights
   object, with every signal and every opportunity in it, is as it was
   fetched. *)
C30_InputNotMutated ==
    (analysis.pc # "idle" /\ analysis.fetch = "ok") => analysis.doc = insights

C30_Witness ==
    /\ Analyzed
    /\ Len(insights.current_signals) = 2
    /\ Len(analysis.value.tradingSignals) = 2
    /\ Len(insights.arbitrage_opportunities) = 2
    /\ Len(analysis.value.arbitrageOpportunities) = 1
    /\ analysis.doc = insights

---------------------------------------------------------------------------
(* Properties of what the bot keeps between runs *)

(* C31 as stated: the results of an analysis run are not persisted; after
   executeAnalysis has returned the bot holds no state derived from the run,
   so its state is the same before and after any number of runs. *)
C31_NothingKept == [][tradingHistory' = tradingHistory]_vars

(* C31, amended: a run that returns recommendations appends them to
   tradingHistory, after the recommendations stored by the earlier runs; a run
   that returns undefined or throws leaves tradingHistory as it was. (A step
   that leaves the served document alone is a run of executeAnalysis.) *)
C31_RecommendationsKept ==
    [][insights' = insights =>
          tradingHistory' = IF analysis'.pc = "returned" /\ analysis'.value.defined
                            THEN Append(tradingHistory, analysis'.value)
                            ELSE tradingHistory]_vars

C31_Witness ==
    /\ Len(tradingHistory) = 2
    /\ analysis.pc = "returned"
    /\ analysis.value.defined
    /\ tradingHistory[2] = analysis.value
    /\ tradingHistory[1] # tradingHistory[2]
    /\ Len(tradingHistory[1].actionItems) > 0

---------------------------------------------------------------------------
(* Properties of the cache around a call *)

StaleSlots == {k \in DOMAIN cache : ~KeyOfCurrentBucket(k, now)}

(* C32: a call that fails (no candidate gave a record) leaves the cache as it
   was before the call: no step of the call, from its start to its throw,
   stores a slot or deletes one. *)
C32_FailedCallLeavesCache ==
    [][\A c \in Calls :
          (pc'[c] # pc[c] /\ pc'[c] \in {"fetch", "backoff", "hung", "threw"}) =>
              cache' = cache]_vars

C32_Witness ==
    /\ pc["c1"] = "threw"
    /\ hist["c1"].round
    /\ args["c1"].useCache
    /\ AllSettled(hist["c1"])
    /\ StaleSlots # {}

(* C33: a call with useCache false neither reads nor changes the cache: it
   runs a network round even when a live slot exists for its key, and no step
   of it, from its start to its end, stores a slot or deletes one. *)
C33_UseCacheFalseBypassesCache ==
    [][\A c \in Calls :
          /\ (pc[c] = "idle" /\ pc'[c] # "idle" /\ ~args'[c].useCache) =>
                 /\ pc'[c] = "fetch"
                 /\ hist'[c].round /\ ~hist'[c].hit
                 /\ hist'[c].reqs[1] = 1
                 /\ cache' = cache
          /\ (pc[c] # "idle" /\ pc'[c] # pc[c] /\ ~args[c].useCache) =>
                 cache' = cache]_vars

C33_Witness ==
    /\ pc["c1"] = "returned"
    /\ ~args["c1"].useCache
    /\ hist["c1"].round
    /\ loc["c1"].cacheKey \in DOMAIN cache
    /\ KeyOfCurrentBucket(loc["c1"].cacheKey, now)
    /\ cache[loc["c1"].cacheKey] # result["c1"]

---------------------------------------------------------------------------
(* Properties of the choice among the candidates of a round *)

(* C34: when several candidates of a round give records with the same latest
   timestamp the first of them is the winner: a later candidate replaces the
   current best only when its last-record timestamp is strictly greater. *)
C34_FirstOfEqualsWins ==
    [][\A c \in Calls :
          (/\ loc[c].bestResult # NoResult
           /\ loc'[c].bestResult # NoResult
           /\ loc'[c].bestResult # loc[c].bestResult) =>
              Gt(loc'[c].bestResult.timestamp, loc[c].bestResult.timestamp)]_vars

---------------------------------------------------------------------------
(* Properties of the market condition *)

(* C35: the market health status and the market recommendation agree on what
   is poor: healthStatus is 'poor' exactly when the recommendation is the
   CAUTION text, for every average health, the boundary 60 included. *)
C35_PoorIffCaution ==
    Analyzed =>
        (analysis.value.marketCondition.healthStatus = "poor"
            <=> analysis.value.marketCondition.recommendation = "CAUTION")

---------------------------------------------------------------------------
(* Properties of getLatestPrices *)

AllPairs == {"coinbase", "kraken"} \X {"BTC", "ETH", "ADA", "XRP"}
LastRecord(r) == r.records[Len(r.records)]

(* C36: getLatestPrices never fails because of a fetch failure: every pair
   fetched so far has its entry, null when fetchCryptoData threw for the pair
   and otherwise with the price and the timestamp of the last record of the
   result; after a failure the later pairs are still fetched, and the result
   returned has an entry for every pair of coinbase, kraken with BTC, ETH,
   ADA, XRP. *)
C36_LatestPricesSurvivesFailures ==
    /\ prices.pc # "threw"
    /\ Len(prices.resolved) = Cardinality(DOMAIN prices.results)
    /\ \A k \in 1..Len(prices.resolved) :
          LET f == prices.resolved[k] IN
          /\ Pairs[k] \in DOMAIN prices.results
          /\ f.path = PathOf(Pairs[k])
          /\ IF f.threw THEN prices.results[Pairs[k]] = NullEntry
             ELSE /\ ~prices.results[Pairs[k]].isNull
                  /\ prices.results[Pairs[k]].price = LastRecord(f.result).mid
                  /\ prices.results[Pairs[k]].timestamp = LastRecord(f.result).t
    /\ prices.pc = "loop" => prices.pair = Len(prices.resolved) + 1
    /\ prices.pc = "returned" => DOMAIN prices.results = AllPairs

C36_Witness ==
    /\ prices.pc = "returned"
    /\ prices.results[<<"coinbase", "BTC">>] = NullEntry
    /\ prices.results[<<"coinbase", "ETH">>].price = 303
    /\ prices.results[<<"coinbase", "ETH">>].timestamp = TOld
    /\ prices.results[<<"kraken", "ADA">>] = NullEntry
    /\ prices.results[<<"kraken", "XRP">>].price = 101
    /\ prices.resolved[8].result.url = 2

---------------------------------------------------------------------------
(* Properties of the auto-analysis loop *)

LoopsOver == \A l \in LoopIds : loops[l].pc \in {"none", "done"}

(* C37: after stop(), while startAutoAnalysis is not called again, the loop
   starts no further run of executeAnalysis (a run starts only while
   isRunning is true), and once its current run and sleep have ended it
   terminates; a loop ends only when it finds isRunning false, so a run that
   throws does not end it while the bot is running: after the sleep of the
   catch the next run starts. *)
C37_StopEndsTheLoop ==
    /\ [][\A l \in LoopIds :
            /\ (loops'[l].pc = "analysis" /\ loops[l].pc # "analysis") => isRunning'
            /\ (loops'[l].pc = "done" /\ loops[l].pc # "done") => ~isRunning
            /\ (loops[l].pc = "errorSleep" /\ loops'[l].pc # "errorSleep" /\ isRunning) =>
                   loops'[l] = [pc |-> "analysis", runs |-> loops[l].runs + 1]]_vars
    /\ (~isRunning) ~> (LoopsOver \/ isRunning)

C37_Witness ==
    /\ ~isRunning
    /\ loops[1] = [pc |-> "done", runs |-> 2]
    /\ loops[2] = NoLoop
    /\ analysis.pc = "threw"
    /\ tradingHistory = <<>>

(* C38: at most one auto-analysis loop runs analyses on a bot: once a later
   call of startAutoAnalysis has started its loop, the loop of an earlier
   call starts no further run of executeAnalysis. *)
C38_OneLoopRunsAnalyses ==
    [][\A l, m \in LoopIds :
          (l < m /\ loops[m].pc # "none") =>
              ~(loops'[l].pc = "analysis" /\ loops[l].pc # "analysis")]_vars

====
